---- MODULE Spec2Model ----
(***************************************************************************)
(* Button and ButtonAnimated (src/ftxui/component/button.cpp) as a state   *)
(* machine.  One instance of each widget is driven in lockstep by the same *)
(* parent tree: the same layout, the same focus changes, the same mouse    *)
(* capture state, the same events and the same frame ticks.                *)
(*                                                                         *)
(* Floats are fixed point: an intensity v stands for v / Scale, time is    *)
(* counted in frame units, and a float product is rounded down.            *)
(***************************************************************************)
EXTENDS Integers, FiniteSets, TLC

(* ------------------------------ bounds -------------------------------- *)

\* The widget is laid out 1..MaxWidth+1 cells wide; the pointer's column
\* ranges over -1..MaxWidth, its row over -1..1.
MaxWidth == 1

\* Scale = 2 * HalfScale is the fixed-point value of 1.0, HalfScale of 0.5.
HalfScale == 2

\* animation_duration ranges over 1..MaxDuration frame units.
MaxDuration == 2

\* One frame tick carries an elapsed time of 1..MaxStep frame units.
MaxStep == 2

Scale == 2 * HalfScale

(* ------------------------- program constants -------------------------- *)

\* ButtonOption::border
ButtonBorder == TRUE

\* ButtonAnimatedOption colour endpoints, as 8-bit grey levels.
foreground_color_focused == 255
foreground_color == 192
background_color_focused == 128
background_color == 0

(* ------------------------------- types -------------------------------- *)

Widgets == {"Button", "ButtonAnimated"}

Columns == (-1)..MaxWidth

Rows == (-1)..1

MakeBox(x0, x1, y0, y1) == [x_min |-> x0, x_max |-> x1, y_min |-> y0, y_max |-> y1]

\* The rectangles the parent tree may assign to the widget when it lays the
\* rendered element out: one row at the origin, of any width.
Layouts == {MakeBox(0, w, 0, 0) : w \in 0..MaxWidth}

\* Box box_; before the first render: holds no cell.
DefaultBox == MakeBox(0, -1, 0, -1)

MakeEvent(k, x, y, b, m) == [kind |-> k, x |-> x, y |-> y, button |-> b, motion |-> m]

\* The mouse events delivered: a left press at every position, and every
\* button and motion at the origin (a cell of every layout) and at (-1,-1)
\* (a cell of none).
MouseEvents ==
    {MakeEvent("mouse", x, y, "Left", "Pressed") : x \in Columns, y \in Rows}
    \cup {MakeEvent("mouse", c, c, b, m) :
             c \in {-1, 0}, b \in {"Left", "Right"}, m \in {"Pressed", "Released"}}

\* Event::Return
Return == MakeEvent("Return", 0, 0, "None", "Released")

\* Any other keyboard event.
Custom == MakeEvent("Custom", 0, 0, "None", "Released")

NoEvent == MakeEvent("none", 0, 0, "None", "Released")

Events == MouseEvents \cup {Return, Custom}

Easings == {"Linear", "QuadraticOut"}

Min(a, b) == IF a < b THEN a ELSE b

(* ------------------- collaborators of the widgets --------------------- *)

\* Box::Contain
Contain(b, x, y) ==
    /\ b.x_min <= x
    /\ x <= b.x_max
    /\ b.y_min <= y
    /\ y <= b.y_max

\* ComponentBase::CaptureMouse: the capture is granted unless another
\* component holds the mouse.  The widgets drop the token at once, so the
\* capture they obtain never outlives the call.
CaptureMouse(captured) == ~captured

\* The easing curve at normalised time current / duration, applied to a
\* displacement delta and rounded down.
Ease(easing, delta, current, duration) ==
    IF easing = "Linear"
    THEN (delta * current) \div duration
    ELSE (delta * current * (2 * duration - current)) \div (duration * duration)

\* animation::Animator(&value, to, duration, easing): starts at the value's
\* current content, no time elapsed.
Animator(from, to, duration, easing) ==
    [from_ |-> from, to_ |-> to, duration_ |-> duration,
     easing_function_ |-> easing, current_ |-> 0]

\* animation::Animator::OnAnimation(params), params.duration() = dt.
\* a is the pair [animation_, animator_]; the animator writes animation_.
\* current_ stops counting at duration_.
Animator_OnAnimation(a, dt) ==
    LET an == a.animator_
        cur == Min(an.current_ + dt, an.duration_)
        value == IF cur >= an.duration_ THEN an.to_
                 ELSE IF cur <= 0 THEN an.from_
                 ELSE an.from_ + Ease(an.easing_function_, an.to_ - an.from_,
                                      cur, an.duration_)
    IN  [animation_ |-> value, animator_ |-> [an EXCEPT !.current_ = cur]]

\* Color::Interpolate(t, a, b): linear blend of a and b by t.
Interpolate(t, a, b) == a + ((b - a) * t) \div Scale

(* ------------------------------ Button -------------------------------- *)

\* What one OnEvent call did: its return value and how often it asked for
\* the mouse capture, asked for the focus and ran on_click_.
Effect(ret, cap, foc, clicks) ==
    [ret |-> ret, capture |-> cap, focus |-> foc, on_click |-> clicks]

\* Button::Impl::Render: the element, whose reflect(box_) stores the layout.
Button_Render(is_focused) ==
    [style |-> IF is_focused THEN "inverted" ELSE "nothing",
     border |-> IF ButtonBorder THEN "border" ELSE "nothing"]

\* Button::Impl::OnEvent without the hit test on mouse events.
Button_OnEvent_NoHitTest(box, event, captured) ==
    IF event.kind = "mouse"
    THEN IF ~CaptureMouse(captured)
         THEN Effect(FALSE, 1, 0, 0)
         ELSE IF event.button = "Left" /\ event.motion = "Pressed"
              THEN Effect(TRUE, 1, 1, 1)
              ELSE Effect(FALSE, 1, 1, 0)
    ELSE IF event = Return
         THEN Effect(TRUE, 0, 0, 1)
         ELSE Effect(FALSE, 0, 0, 0)

\* Button::Impl::OnEvent activating on the release instead of the press.
Button_OnEvent_OnRelease(box, event, captured) ==
    IF event.kind = "mouse" /\ Contain(box, event.x, event.y)
    THEN IF ~CaptureMouse(captured)
         THEN Effect(FALSE, 1, 0, 0)
         ELSE IF event.button = "Left" /\ event.motion = "Released"
              THEN Effect(TRUE, 1, 1, 1)
              ELSE Effect(FALSE, 1, 1, 0)
    ELSE IF event = Return
         THEN Effect(TRUE, 0, 0, 1)
         ELSE Effect(FALSE, 0, 0, 0)

\* Button::Impl::OnEvent taking the focus before it asks for the capture.
Button_OnEvent_FocusFirst(box, event, captured) ==
    IF event.kind = "mouse" /\ Contain(box, event.x, event.y)
    THEN IF ~CaptureMouse(captured)
         THEN Effect(FALSE, 1, 1, 0)
         ELSE IF event.button = "Left" /\ event.motion = "Pressed"
              THEN Effect(TRUE, 1, 1, 1)
              ELSE Effect(FALSE, 1, 1, 0)
    ELSE IF event = Return
         THEN Effect(TRUE, 0, 0, 1)
         ELSE Effect(FALSE, 0, 0, 0)

\* Button::Impl::OnEvent running on_click_ on Return without consuming it.
Button_OnEvent_ReturnNotConsumed(box, event, captured) ==
    IF event.kind = "mouse" /\ Contain(box, event.x, event.y)
    THEN IF ~CaptureMouse(captured)
         THEN Effect(FALSE, 1, 0, 0)
         ELSE IF event.button = "Left" /\ event.motion = "Pressed"
              THEN Effect(TRUE, 1, 1, 1)
              ELSE Effect(FALSE, 1, 1, 0)
    ELSE IF event = Return
         THEN Effect(FALSE, 0, 0, 1)
         ELSE Effect(FALSE, 0, 0, 0)

\* Button::Impl::OnEvent passing the mouse position to box_.Contain as (y, x).
Button_OnEvent_TransposedHit(box, event, captured) ==
    IF event.kind = "mouse" /\ Contain(box, event.y, event.x)
    THEN IF ~CaptureMouse(captured)
         THEN Effect(FALSE, 1, 0, 0)
         ELSE IF event.button = "Left" /\ event.motion = "Pressed"
              THEN Effect(TRUE, 1, 1, 1)
              ELSE Effect(FALSE, 1, 1, 0)
    ELSE IF event = Return
         THEN Effect(TRUE, 0, 0, 1)
         ELSE Effect(FALSE, 0, 0, 0)

\* Button::Impl::OnEvent clicking on every event that is not a mouse event
\* inside box_, without the test for Event::Return.
Button_OnEvent_AnyKey(box, event, captured) ==
    IF event.kind = "mouse" /\ Contain(box, event.x, event.y)
    THEN IF ~CaptureMouse(captured)
         THEN Effect(FALSE, 1, 0, 0)
         ELSE IF event.button = "Left" /\ event.motion = "Pressed"
              THEN Effect(TRUE, 1, 1, 1)
              ELSE Effect(FALSE, 1, 1, 0)
    ELSE Effect(TRUE, 0, 0, 1)

\* Button::Impl::OnEvent
Button_OnEvent(box, event, captured) ==
    IF event.kind = "mouse" /\ Contain(box, event.x, event.y)
    THEN IF ~CaptureMouse(captured)
         THEN Effect(FALSE, 1, 0, 0)
         ELSE IF event.button = "Left" /\ event.motion = "Pressed"
              THEN Effect(TRUE, 1, 1, 1)
              ELSE Effect(FALSE, 1, 1, 0)
    ELSE IF event = Return
         THEN Effect(TRUE, 0, 0, 1)
         ELSE Effect(FALSE, 0, 0, 0)

(* --------------------------- ButtonAnimated --------------------------- *)

\* ButtonAnimated::Impl::SetAnimationTarget
SetAnimationTarget(a, target, opt) ==
    [animation_ |-> a.animation_,
     animator_ |-> Animator(a.animation_, target, opt.animation_duration,
                            opt.animation_easing)]

\* The element ButtonAnimated::Impl::Render builds at intensity t.
AnimatedElement(t) ==
    [color |-> Interpolate(t, foreground_color, foreground_color_focused),
     bgcolor |-> Interpolate(t, background_color, background_color_focused),
     border |-> "borderEmpty"]

\* ButtonAnimated::Impl::Render without the retargeting.
ButtonAnimated_Render_NoRetarget(is_focused, a, opt) ==
    [anim |-> a, element |-> AnimatedElement(a.animation_)]

\* ButtonAnimated::Impl::Render advancing the animator by one frame unit.
ButtonAnimated_Render_Ticks(is_focused, a, opt) ==
    LET target == IF is_focused THEN Scale ELSE 0
        b == IF target # a.animator_.to_ THEN SetAnimationTarget(a, target, opt) ELSE a
        c == Animator_OnAnimation(b, 1)
    IN  [anim |-> c, element |-> AnimatedElement(c.animation_)]

\* ButtonAnimated::Impl::Render retargeting toward 1.0 only, never back to 0.0.
ButtonAnimated_Render_NeverBack(is_focused, a, opt) ==
    LET b == IF is_focused /\ a.animator_.to_ # Scale
             THEN SetAnimationTarget(a, Scale, opt) ELSE a
    IN  [anim |-> b, element |-> AnimatedElement(b.animation_)]

\* ButtonAnimated::Impl::Render calling SetAnimationTarget without comparing
\* the target with animator_.to().
ButtonAnimated_Render_AlwaysRetargets(is_focused, a, opt) ==
    LET b == SetAnimationTarget(a, IF is_focused THEN Scale ELSE 0, opt)
    IN  [anim |-> b, element |-> AnimatedElement(b.animation_)]

\* ButtonAnimated::Impl::Render writing the new target to animation_ when it
\* retargets.
ButtonAnimated_Render_Snaps(is_focused, a, opt) ==
    LET target == IF is_focused THEN Scale ELSE 0
        b == IF target # a.animator_.to_
             THEN SetAnimationTarget([a EXCEPT !.animation_ = target], target, opt)
             ELSE a
    IN  [anim |-> b, element |-> AnimatedElement(b.animation_)]

\* ButtonAnimated::Impl::Render: retarget, then build the element.
ButtonAnimated_Render(is_focused, a, opt) ==
    LET target == IF is_focused THEN Scale ELSE 0
        b == IF target # a.animator_.to_ THEN SetAnimationTarget(a, target, opt) ELSE a
    IN  [anim |-> b, element |-> AnimatedElement(b.animation_)]

\* ButtonAnimated::Impl::OnAnimation stepping animation_ by dt / duration
\* toward the target, without stopping at the target.
ButtonAnimated_OnAnimation_Overshoots(a, dt) ==
    LET an == a.animator_
        step == (dt * Scale) \div an.duration_
    IN  [animation_ |-> IF an.to_ = 0 THEN a.animation_ - step ELSE a.animation_ + step,
         animator_ |-> [an EXCEPT !.current_ = Min(an.current_ + dt, an.duration_)]]

\* ButtonAnimated::Impl::OnAnimation
ButtonAnimated_OnAnimation(a, dt) == Animator_OnAnimation(a, dt)

\* What on_click_ can read of the widget while it runs.
Seen(a) == [animation_ |-> a.animation_, to_ |-> a.animator_.to_]

NotCalled == [animation_ |-> -1, to_ |-> -1]

\* ButtonAnimated::Impl::OnClick without the write of 0.5 to animation_.
OnClick_KeepsIntensity(a, opt) ==
    [seen |-> Seen(a), anim |-> SetAnimationTarget(a, Scale, opt), thrown |-> a]

\* ButtonAnimated::Impl::OnClick adding 0.5 to animation_ instead of writing
\* 0.5 to it.
OnClick_AddsHalf(a, opt) ==
    [seen |-> Seen(a),
     anim |-> SetAnimationTarget([a EXCEPT !.animation_ = @ + HalfScale], Scale, opt),
     thrown |-> a]

\* ButtonAnimated::Impl::OnClick with the perturbation before on_click_().
OnClick_PerturbsFirst(a, opt) ==
    LET b == SetAnimationTarget([a EXCEPT !.animation_ = HalfScale], Scale, opt)
    IN  [seen |-> Seen(b), anim |-> b, thrown |-> b]

\* ButtonAnimated::Impl::OnClick: on_click_(), then the perturbation.
\* seen: what on_click_ reads; anim: the state after OnClick returned;
\* thrown: the state left behind when on_click_ throws.
OnClick(a, opt) ==
    [seen |-> Seen(a),
     anim |-> SetAnimationTarget([a EXCEPT !.animation_ = HalfScale], Scale, opt),
     thrown |-> a]

\* ButtonAnimated::Impl::OnEvent without the hit test on mouse events.
ButtonAnimated_OnEvent_NoHitTest(box, event, captured, a, opt) ==
    IF event.kind = "mouse"
    THEN IF ~CaptureMouse(captured)
         THEN [eff |-> Effect(FALSE, 1, 0, 0), anim |-> a, seen |-> NotCalled]
         ELSE IF event.button = "Left" /\ event.motion = "Pressed"
              THEN [eff |-> Effect(TRUE, 1, 1, 1), anim |-> OnClick(a, opt).anim,
                    seen |-> OnClick(a, opt).seen]
              ELSE [eff |-> Effect(FALSE, 1, 1, 0), anim |-> a, seen |-> NotCalled]
    ELSE IF event = Return
         THEN [eff |-> Effect(TRUE, 0, 0, 1), anim |-> OnClick(a, opt).anim,
               seen |-> OnClick(a, opt).seen]
         ELSE [eff |-> Effect(FALSE, 0, 0, 0), anim |-> a, seen |-> NotCalled]

\* ButtonAnimated::Impl::OnEvent clicking on any left-button event, without
\* the test of the motion.
ButtonAnimated_OnEvent_AnyLeft(box, event, captured, a, opt) ==
    IF event.kind = "mouse" /\ Contain(box, event.x, event.y)
    THEN IF ~CaptureMouse(captured)
         THEN [eff |-> Effect(FALSE, 1, 0, 0), anim |-> a, seen |-> NotCalled]
         ELSE IF event.button = "Left"
              THEN [eff |-> Effect(TRUE, 1, 1, 1), anim |-> OnClick(a, opt).anim,
                    seen |-> OnClick(a, opt).seen]
              ELSE [eff |-> Effect(FALSE, 1, 1, 0), anim |-> a, seen |-> NotCalled]
    ELSE IF event = Return
         THEN [eff |-> Effect(TRUE, 0, 0, 1), anim |-> OnClick(a, opt).anim,
               seen |-> OnClick(a, opt).seen]
         ELSE [eff |-> Effect(FALSE, 0, 0, 0), anim |-> a, seen |-> NotCalled]

\* ButtonAnimated::Impl::OnEvent calling TakeFocus before CaptureMouse.
ButtonAnimated_OnEvent_FocusFirst(box, event, captured, a, opt) ==
    IF event.kind = "mouse" /\ Contain(box, event.x, event.y)
    THEN IF ~CaptureMouse(captured)
         THEN [eff |-> Effect(FALSE, 1, 1, 0), anim |-> a, seen |-> NotCalled]
         ELSE IF event.button = "Left" /\ event.motion = "Pressed"
              THEN [eff |-> Effect(TRUE, 1, 1, 1), anim |-> OnClick(a, opt).anim,
                    seen |-> OnClick(a, opt).seen]
              ELSE [eff |-> Effect(FALSE, 1, 1, 0), anim |-> a, seen |-> NotCalled]
    ELSE IF event = Return
         THEN [eff |-> Effect(TRUE, 0, 0, 1), anim |-> OnClick(a, opt).anim,
               seen |-> OnClick(a, opt).seen]
         ELSE [eff |-> Effect(FALSE, 0, 0, 0), anim |-> a, seen |-> NotCalled]

\* ButtonAnimated::Impl::OnEvent returning false after the OnClick of a
\* left press.
ButtonAnimated_OnEvent_PressNotConsumed(box, event, captured, a, opt) ==
    IF event.kind = "mouse" /\ Contain(box, event.x, event.y)
    THEN IF ~CaptureMouse(captured)
         THEN [eff |-> Effect(FALSE, 1, 0, 0), anim |-> a, seen |-> NotCalled]
         ELSE IF event.button = "Left" /\ event.motion = "Pressed"
              THEN [eff |-> Effect(FALSE, 1, 1, 1), anim |-> OnClick(a, opt).anim,
                    seen |-> OnClick(a, opt).seen]
              ELSE [eff |-> Effect(FALSE, 1, 1, 0), anim |-> a, seen |-> NotCalled]
    ELSE IF event = Return
         THEN [eff |-> Effect(TRUE, 0, 0, 1), anim |-> OnClick(a, opt).anim,
               seen |-> OnClick(a, opt).seen]
         ELSE [eff |-> Effect(FALSE, 0, 0, 0), anim |-> a, seen |-> NotCalled]

\* ButtonAnimated::Impl::OnEvent: the effect and the animation state after.
ButtonAnimated_OnEvent(box, event, captured, a, opt) ==
    IF event.kind = "mouse" /\ Contain(box, event.x, event.y)
    THEN IF ~CaptureMouse(captured)
         THEN [eff |-> Effect(FALSE, 1, 0, 0), anim |-> a, seen |-> NotCalled]
         ELSE IF event.button = "Left" /\ event.motion = "Pressed"
              THEN [eff |-> Effect(TRUE, 1, 1, 1), anim |-> OnClick(a, opt).anim,
                    seen |-> OnClick(a, opt).seen]
              ELSE [eff |-> Effect(FALSE, 1, 1, 0), anim |-> a, seen |-> NotCalled]
    ELSE IF event = Return
         THEN [eff |-> Effect(TRUE, 0, 0, 1), anim |-> OnClick(a, opt).anim,
               seen |-> OnClick(a, opt).seen]
         ELSE [eff |-> Effect(FALSE, 0, 0, 0), anim |-> a, seen |-> NotCalled]

(* ------------------------------- state -------------------------------- *)

VARIABLES
    box_,            \* box_ of each widget
    focused,         \* Focused() of each widget
    element,         \* what Render returned, while it is the last call
    option_,         \* the ButtonAnimatedOption: duration and easing
    animation_,      \* ButtonAnimated: the intensity
    animator_,       \* ButtonAnimated: the running transition
    layout,          \* parent tree: the rectangle the widget is laid out in
    mouse_captured,  \* parent tree: another component holds the mouse
    last,            \* the last call: operation, event delivered, tick length
    out,             \* the effect of the last OnEvent on each widget
    observed,        \* what on_click_ of ButtonAnimated saw in the last OnEvent
    scenario,        \* time since a focus gain at rest, and whether rendered
    denials          \* the last call directly follows a denied capture and its release

vars == <<box_, focused, element, option_, animation_, animator_, layout,
          mouse_captured, last, out, observed, scenario, denials>>

Anim == [animation_ |-> animation_, animator_ |-> animator_]

\* again: the call repeats the one before it (kept for Render only).
Call(op, event, dt, again) == [op |-> op, event |-> event, dt |-> dt, again |-> again]

NoEffect == [delivered |-> FALSE, ret |-> FALSE, capture |-> 0, focus |-> 0, on_click |-> 0]

Delivered(eff) ==
    [delivered |-> TRUE, ret |-> eff.ret, capture |-> eff.capture,
     focus |-> eff.focus, on_click |-> eff.on_click]

ScenarioOff == [elapsed |-> -1, rendered |-> FALSE]

\* The last call was an OnEvent whose CaptureMouse was denied.
Denied ==
    /\ last.op = "OnEvent"
    /\ mouse_captured
    /\ \E w \in Widgets : out[w].capture = 1

\* The call now made asks for the capture (asks) directly after the other
\* component released the mouse it had denied to the widgets.
AfterDenial(asks) == last.op = "Tree" /\ denials /\ asks

NoElement == [style |-> "none"]

Init ==
    /\ box_ = [w \in Widgets |-> DefaultBox]
    /\ focused = [w \in Widgets |-> FALSE]
    /\ element = [w \in Widgets |-> NoElement]
    /\ option_ \in [animation_duration : 1..MaxDuration, animation_easing : Easings]
    /\ animation_ = 0
    \* animation::Animator(&animation_): at rest at 0, with the animator's
    \* own default duration and easing (here one frame unit, linear).
    /\ animator_ = Animator(0, 0, 1, "Linear")
    /\ layout \in Layouts
    /\ mouse_captured = FALSE
    /\ last = Call("Init", NoEvent, 0, FALSE)
    /\ out = [w \in Widgets |-> NoEffect]
    /\ observed = NotCalled
    /\ scenario = ScenarioOff
    /\ denials = FALSE

(* ------------------------------ actions ------------------------------- *)

\* The parent tree renders both widgets and lays the elements out.
Render ==
    LET r == ButtonAnimated_Render(focused["ButtonAnimated"], Anim, option_)
    IN  /\ element' = [w \in Widgets |->
                          IF w = "Button" THEN Button_Render(focused[w]) ELSE r.element]
        /\ box_' = [w \in Widgets |-> layout]
        /\ animation_' = r.anim.animation_
        /\ animator_' = r.anim.animator_
        /\ last' = Call("Render", NoEvent, 0, last.op = "Render")
        /\ out' = [w \in Widgets |-> NoEffect]
        /\ observed' = NotCalled
        /\ scenario' = IF scenario.elapsed = 0
                       THEN [scenario EXCEPT !.rendered = TRUE]
                       ELSE scenario
        /\ denials' = FALSE
        /\ UNCHANGED <<focused, option_, layout, mouse_captured>>

\* The parent tree routes keyboard events to the focused widget only; mouse
\* events reach the widget wherever the focus is.
Routed(w, event) == event.kind = "mouse" \/ focused[w]

\* The parent tree delivers one event to both widgets.
OnEvent ==
    \E event \in Events :
        LET b == Button_OnEvent(box_["Button"], event, mouse_captured)
            a == ButtonAnimated_OnEvent(box_["ButtonAnimated"], event,
                                        mouse_captured, Anim, option_)
            eff == [w \in Widgets |-> IF w = "Button" THEN b ELSE a.eff]
        IN  /\ {w \in Widgets : Routed(w, event)} # {}
            /\ out' = [w \in Widgets |->
                          IF Routed(w, event) THEN Delivered(eff[w]) ELSE NoEffect]
            /\ focused' = [w \in Widgets |->
                              focused[w] \/ (Routed(w, event) /\ eff[w].focus > 0)]
            /\ animation_' = IF Routed("ButtonAnimated", event)
                             THEN a.anim.animation_ ELSE animation_
            /\ animator_' = IF Routed("ButtonAnimated", event)
                            THEN a.anim.animator_ ELSE animator_
            /\ last' = Call("OnEvent", event, 0, FALSE)
            /\ observed' = IF Routed("ButtonAnimated", event) THEN a.seen ELSE NotCalled
            /\ scenario' = ScenarioOff
            /\ element' = [w \in Widgets |-> NoElement]
            /\ denials' = AfterDenial(\E w \in Widgets :
                                         Routed(w, event) /\ eff[w].capture > 0)
            /\ UNCHANGED <<box_, option_, layout, mouse_captured>>

\* The frame clock ticks; Button has no OnAnimation of its own.
OnAnimation ==
    \E dt \in 1..MaxStep :
        LET a == ButtonAnimated_OnAnimation(Anim, dt)
        IN  /\ animation_' = a.animation_
            /\ animator_' = a.animator_
            /\ last' = Call("OnAnimation", NoEvent, dt, FALSE)
            /\ out' = [w \in Widgets |-> NoEffect]
            /\ observed' = NotCalled
            /\ scenario' = IF /\ scenario.elapsed >= 0
                              /\ scenario.elapsed + dt <= option_.animation_duration
                           THEN [scenario EXCEPT !.elapsed = @ + dt]
                           ELSE ScenarioOff
            /\ element' = [w \in Widgets |-> NoElement]
            /\ denials' = FALSE
            /\ UNCHANGED <<box_, focused, option_, layout, mouse_captured>>

AtRest == animation_ = 0 /\ animator_.to_ = 0

\* The parent tree moves the focus onto the widgets.
FocusGain ==
    /\ \E w \in Widgets : ~focused[w]
    /\ focused' = [w \in Widgets |-> TRUE]
    /\ scenario' = IF AtRest /\ ~focused["ButtonAnimated"]
                   THEN [elapsed |-> 0, rendered |-> FALSE]
                   ELSE ScenarioOff
    /\ last' = Call("Focus", NoEvent, 0, FALSE)
    /\ out' = [w \in Widgets |-> NoEffect]
    /\ observed' = NotCalled
    /\ element' = [w \in Widgets |-> NoElement]
    /\ denials' = FALSE
    /\ UNCHANGED <<box_, option_, animation_, animator_, layout, mouse_captured>>

\* The parent tree moves the focus elsewhere.
FocusLoss ==
    /\ \E w \in Widgets : focused[w]
    /\ focused' = [w \in Widgets |-> FALSE]
    /\ scenario' = ScenarioOff
    /\ last' = Call("Focus", NoEvent, 0, FALSE)
    /\ out' = [w \in Widgets |-> NoEffect]
    /\ observed' = NotCalled
    /\ element' = [w \in Widgets |-> NoElement]
    /\ denials' = FALSE
    /\ UNCHANGED <<box_, option_, animation_, animator_, layout, mouse_captured>>

\* The parent tree assigns the widgets another rectangle.
Relayout ==
    /\ layout' \in Layouts \ {layout}
    /\ last' = Call("Tree", NoEvent, 0, FALSE)
    /\ out' = [w \in Widgets |-> NoEffect]
    /\ observed' = NotCalled
    /\ element' = [w \in Widgets |-> NoElement]
    /\ denials' = FALSE
    /\ UNCHANGED <<box_, focused, option_, animation_, animator_,
                   mouse_captured, scenario>>

\* Another component takes or releases the mouse.
OtherCapture ==
    /\ mouse_captured' = ~mouse_captured
    /\ last' = Call("Tree", NoEvent, 0, FALSE)
    /\ out' = [w \in Widgets |-> NoEffect]
    /\ observed' = NotCalled
    /\ element' = [w \in Widgets |-> NoElement]
    /\ denials' = Denied
    /\ UNCHANGED <<box_, focused, option_, animation_, animator_,
                   layout, scenario>>

Next ==
    \/ Render
    \/ OnEvent
    \/ OnAnimation
    \/ FocusGain
    \/ FocusLoss
    \/ Relayout
    \/ OtherCapture

Spec == Init /\ [][Next]_vars

\* The parent tree delivers one event that reaches on_click_, and on_click_
\* throws: the exception leaves OnClick and OnEvent, which catch nothing, so
\* no value is returned; what ran before the call stays done.
OnEventThrows ==
    \E event \in Events :
        LET b == Button_OnEvent(box_["Button"], event, mouse_captured)
            a == ButtonAnimated_OnEvent(box_["ButtonAnimated"], event,
                                        mouse_captured, Anim, option_)
            eff == [w \in Widgets |-> IF w = "Button" THEN b ELSE a.eff]
            clicked == {w \in Widgets : Routed(w, event) /\ eff[w].on_click > 0}
            c == OnClick(Anim, option_)
        IN  /\ clicked # {}
            /\ out' = [w \in Widgets |->
                          IF w \in clicked
                          THEN [Delivered(eff[w]) EXCEPT !.ret = FALSE]
                          ELSE NoEffect]
            /\ focused' = [w \in Widgets |->
                              focused[w] \/ (w \in clicked /\ eff[w].focus > 0)]
            /\ animation_' = IF "ButtonAnimated" \in clicked
                             THEN c.thrown.animation_ ELSE animation_
            /\ animator_' = IF "ButtonAnimated" \in clicked
                            THEN c.thrown.animator_ ELSE animator_
            /\ last' = Call("OnEventThrew", event, 0, FALSE)
            /\ observed' = IF "ButtonAnimated" \in clicked THEN c.seen ELSE NotCalled
            /\ scenario' = ScenarioOff
            /\ element' = [w \in Widgets |-> NoElement]
            /\ denials' = AfterDenial(\E w \in Widgets :
                                         Routed(w, event) /\ eff[w].capture > 0)
            /\ UNCHANGED <<box_, option_, layout, mouse_captured>>

NextThrows ==
    \/ Next
    \/ OnEventThrows

\* The widgets with an on_click_ that may throw.
SpecThrows == Init /\ [][NextThrows]_vars

(* ------------------------------ claims ------------------------------- *)

\* The last call was OnEvent with a mouse event.
PointerEvent == last.op = "OnEvent" /\ last.event.kind = "mouse"

\* The mouse event of the last call lies in the widget's box_.
Inside(w) == Contain(box_[w], last.event.x, last.event.y)

LeftPress == last.event.button = "Left" /\ last.event.motion = "Pressed"

\* The whole effect of an OnEvent call that did nothing.
Ignored == Delivered(Effect(FALSE, 0, 0, 0))

\* C1: OnEvent on a mouse event outside box_ returns false and changes
\* nothing: no capture request, no focus request, no on_click_ call, the
\* focus and box_ as before and, for ButtonAnimated, animation_ and the
\* animator as before.
C1_OutsideChangesNothing ==
    [][\A w \in Widgets :
          (/\ last'.op = "OnEvent"
           /\ last'.event.kind = "mouse"
           /\ ~Contain(box_[w], last'.event.x, last'.event.y))
          => /\ out'[w] = Ignored
             /\ focused'[w] = focused[w]
             /\ box_'[w] = box_[w]
             /\ w = "ButtonAnimated" =>
                    animation_' = animation_ /\ animator_' = animator_]_vars

\* A left press next to the rendered, unfocused widgets, mid-transition.
C1_Witness ==
    /\ PointerEvent
    /\ LeftPress
    /\ ~mouse_captured
    /\ \A w \in Widgets :
          box_[w] \in Layouts /\ ~Inside(w) /\ out[w].delivered /\ ~focused[w]
    /\ animation_ > 0
    /\ animation_ < Scale

\* C2: a left press inside box_ with the capture granted asks for the
\* capture and the focus, runs on_click_ exactly once and returns true.
C2_PressInsideActivates ==
    \A w \in Widgets :
        (PointerEvent /\ Inside(w) /\ LeftPress /\ ~mouse_captured)
        => /\ out[w].ret
           /\ out[w].on_click = 1
           /\ out[w].capture = 1
           /\ out[w].focus = 1
           /\ focused[w]

C2_Witness ==
    /\ PointerEvent
    /\ LeftPress
    /\ ~mouse_captured
    /\ \A w \in Widgets : Inside(w) /\ out[w].ret /\ out[w].on_click = 1

\* C3: a mouse event inside box_ whose capture is denied returns false and
\* leaves the widget as it was: no focus request, no on_click_ call, the
\* focus as before and, for ButtonAnimated, animation_ and the animator as
\* before.
C3_DeniedChangesNothing ==
    [][\A w \in Widgets :
          (/\ last'.op = "OnEvent"
           /\ last'.event.kind = "mouse"
           /\ Contain(box_[w], last'.event.x, last'.event.y)
           /\ mouse_captured)
          => /\ out'[w] = Delivered(Effect(FALSE, 1, 0, 0))
             /\ focused'[w] = focused[w]
             /\ box_'[w] = box_[w]
             /\ w = "ButtonAnimated" =>
                    animation_' = animation_ /\ animator_' = animator_]_vars

\* A left press inside the unfocused widgets while another component holds
\* the mouse.
C3_Witness ==
    /\ PointerEvent
    /\ LeftPress
    /\ mouse_captured
    /\ \A w \in Widgets : Inside(w) /\ out[w].delivered /\ ~focused[w]
    /\ animation_ > 0
    /\ animation_ < Scale

\* C4: Event::Return runs on_click_ exactly once and returns true, whatever
\* box_ is, with no capture or focus request; the parent tree delivers it
\* to a widget only while that widget has the focus.
C4_ReturnActivates ==
    \A w \in Widgets :
        (last.op = "OnEvent" /\ last.event = Return)
        => /\ out[w].delivered = focused[w]
           /\ out[w].delivered =>
                 /\ out[w].ret
                 /\ out[w].on_click = 1
                 /\ out[w].capture = 0
                 /\ out[w].focus = 0

\* Return reaches the focused widgets before their first render.
C4_Witness ==
    /\ last.op = "OnEvent"
    /\ last.event = Return
    /\ \A w \in Widgets : out[w].delivered /\ out[w].ret /\ box_[w] = DefaultBox

\* The last call was an OnEvent that activates widget w: a left press inside
\* box_ with the capture granted, or Return delivered to it.
Activated(w) ==
    /\ last.op = "OnEvent"
    /\ \/ last.event.kind = "mouse" /\ Inside(w) /\ LeftPress /\ ~mouse_captured
       \/ last.event = Return /\ focused[w]

\* C5: right after an activation of ButtonAnimated, animation_ is 0.5 and
\* the animator's target is 1.0, whatever they were before.
C5_ActivationPerturbs ==
    Activated("ButtonAnimated") => animation_ = HalfScale /\ animator_.to_ = Scale

\* An activation that found the intensity at rest at 1.0.
C5_Witness ==
    /\ Activated("ButtonAnimated")
    /\ observed = [animation_ |-> Scale, to_ |-> Scale]
    /\ animation_ = HalfScale

\* C6: a mouse event inside box_ that is not a left press, with the capture
\* granted, asks for the capture and the focus, does not run on_click_ and
\* returns false.
C6_OtherPointerInsideFocuses ==
    \A w \in Widgets :
        (PointerEvent /\ Inside(w) /\ ~LeftPress /\ ~mouse_captured)
        => /\ ~out[w].ret
           /\ out[w].on_click = 0
           /\ out[w].capture = 1
           /\ out[w].focus = 1
           /\ focused[w]

\* A left release inside both widgets.
C6_Witness ==
    /\ PointerEvent
    /\ last.event.button = "Left"
    /\ last.event.motion = "Released"
    /\ ~mouse_captured
    /\ \A w \in Widgets : Inside(w) /\ out[w].focus = 1 /\ ~out[w].ret

ScenarioDone ==
    /\ scenario.elapsed = option_.animation_duration
    /\ option_.animation_easing = "Linear"

\* animation_ is 1.0 and Render shows the focused colours.
FullyFocused ==
    /\ animation_ = Scale
    /\ AnimatedElement(animation_).color = foreground_color_focused
    /\ AnimatedElement(animation_).bgcolor = background_color_focused

\* C9 as stated: from rest, after a focus gain and then frame ticks of a
\* linear easing adding up to exactly animation_duration, animation_ is 1.0
\* and the colours are the focused ones.
C9_FocusThenTicks == ScenarioDone => FullyFocused

\* C9 amended: the same, provided Render ran after the focus gain and before
\* the first of the ticks.
C9_FocusRenderThenTicks == (ScenarioDone /\ scenario.rendered) => FullyFocused

\* The amended scenario, ended by a tick of one frame unit under the longest
\* duration.
C9_Witness ==
    /\ ScenarioDone
    /\ scenario.rendered
    /\ option_.animation_duration = MaxDuration
    /\ last.op = "OnAnimation"
    /\ last.dt = 1
    /\ animation_ = Scale

\* C10: a Render that directly follows a Render returns the same element
\* and leaves box_, animation_ and the animator (target and progress) as
\* the first left them.
C10_RenderTwice ==
    [][(last'.op = "Render" /\ last'.again)
       => /\ element' = element
          /\ box_' = box_
          /\ animation_' = animation_
          /\ animator_' = animator_]_vars

\* A second Render in a row, of the focused widgets, part of the way through
\* a transition.
C10_Witness ==
    /\ last.op = "Render"
    /\ last.again
    /\ \A w \in Widgets : focused[w] /\ box_[w] \in Layouts
    /\ animation_ > 0
    /\ animation_ < Scale
    /\ animator_.current_ > 0

FocusTarget == IF focused["ButtonAnimated"] THEN Scale ELSE 0

\* C12 as stated: in every reachable state the animator's target is 1.0
\* when ButtonAnimated is focused and 0.0 when it is not, except right after
\* an activation, where it is 1.0.
C12_TargetFollowsFocus ==
    IF Activated("ButtonAnimated")
    THEN animator_.to_ = Scale
    ELSE animator_.to_ = FocusTarget

\* C12: right after Render the animator's target is 1.0 when ButtonAnimated
\* is focused and 0.0 when it is not; right after an activation it is 1.0;
\* every other step, a focus change included, leaves the target as it was.
C12_TargetFollowsFocusAtRender ==
    [][/\ last'.op = "Render" => animator_.to_' = FocusTarget'
       /\ Activated("ButtonAnimated")' => animator_.to_' = Scale
       /\ (last'.op # "Render" /\ ~Activated("ButtonAnimated")')
              => animator_.to_' = animator_.to_]_vars

\* Render has turned the target back to 0.0 after the focus left, with
\* animation_ still above 0.0.
C12_Witness ==
    /\ last.op = "Render"
    /\ ~focused["ButtonAnimated"]
    /\ animator_.to_ = 0
    /\ animator_.current_ = 0
    /\ animation_ > 0

\* C13: after every Render of ButtonAnimated the animator's target is 1.0 if
\* the widget is focused and 0.0 otherwise. When the target differed before
\* the call, a new transition starts from the current animation_, with no
\* time elapsed, the configured duration and easing, and animation_ as it
\* was; when it matched, animation_ and the animator are left as they were.
C13_RenderRetargets ==
    [][last'.op = "Render" =>
          /\ animator_.to_' = FocusTarget
          /\ animation_' = animation_
          /\ IF animator_.to_ # FocusTarget
             THEN /\ animator_.from_' = animation_
                  /\ animator_.current_' = 0
                  /\ animator_.duration_' = option_.animation_duration
                  /\ animator_.easing_function_' = option_.animation_easing
             ELSE animator_' = animator_]_vars

\* Render has just retargeted a focused widget from part of the way down:
\* the new transition runs from that animation_ (not 0.5, so it does not
\* come from OnClick) to 1.0, with no time elapsed.
C13_Witness ==
    /\ last.op = "Render"
    /\ ~last.again
    /\ focused["ButtonAnimated"]
    /\ animator_.to_ = Scale
    /\ animator_.current_ = 0
    /\ animator_.from_ = animation_
    /\ animation_ > 0
    /\ animation_ < Scale
    /\ animation_ # HalfScale

\* C14: Button and ButtonAnimated, rendered in the same layout and given the
\* same focus changes, capture answers and events, agree after every step on
\* the value OnEvent returned, on its capture and focus requests and on the
\* number of on_click_ calls, and so on the focus and on box_; they differ
\* in the animation state only, which Button does not have.
C14_SameContract ==
    /\ out["Button"] = out["ButtonAnimated"]
    /\ focused["Button"] = focused["ButtonAnimated"]
    /\ box_["Button"] = box_["ButtonAnimated"]

\* Return reached both widgets while ButtonAnimated was at 1.0: both ran
\* on_click_ once and returned true, and only ButtonAnimated's animation
\* state moved.
C14_Witness ==
    /\ last.op = "OnEvent"
    /\ last.event = Return
    /\ \A w \in Widgets : out[w] = Delivered(Effect(TRUE, 0, 0, 1))
    /\ observed.animation_ = Scale
    /\ animation_ = HalfScale

\* C15: animation_ is written by the frame tick and by the perturbation of an
\* activation only: Render, the focus changes, the parent tree's steps and
\* every OnEvent that does not activate leave animation_ as it was.
C15_IntensityWriters ==
    [][(\/ last'.op \in {"Render", "Focus", "Tree"}
        \/ last'.op = "OnEvent" /\ ~Activated("ButtonAnimated")')
       => animation_' = animation_]_vars

\* A mouse event inside box_ that is not a left press gave ButtonAnimated the
\* focus part of the way down to 0.0: animation_ and the transition stay.
C15_Witness ==
    /\ PointerEvent
    /\ ~LeftPress
    /\ Inside("ButtonAnimated")
    /\ out["ButtonAnimated"].focus = 1
    /\ animator_.to_ = 0
    /\ animator_.current_ > 0
    /\ animation_ > 0
    /\ animation_ < Scale

\* C16: box_ is written by Render only, which stores the rectangle the
\* element is laid out in; OnEvent, frame ticks, focus changes and a new
\* layout not yet rendered leave it as it was; and OnEvent tests every mouse
\* event against that box_ (it asks for the capture exactly when the
\* position is in it).
C16_BoxWrittenByRender ==
    [][/\ last'.op = "Render" => \A w \in Widgets : box_'[w] = layout
       /\ last'.op # "Render" => box_' = box_
       /\ (last'.op = "OnEvent" /\ last'.event.kind = "mouse")
              => \A w \in Widgets :
                    (out'[w].capture = 1)
                        = Contain(box_[w], last'.event.x, last'.event.y)]_vars

\* The layout shrank after the last Render: a left press in the cell that
\* only the rendered rectangle contains still activates both widgets.
C16_Witness ==
    /\ PointerEvent
    /\ LeftPress
    /\ last.event.x = 1
    /\ last.event.y = 0
    /\ layout = MakeBox(0, 0, 0, 0)
    /\ \A w \in Widgets : box_[w] = MakeBox(0, 1, 0, 0) /\ out[w].ret

\* C17: an OnEvent call runs on_click_ at most once, returns true exactly
\* when it ran it, and runs it exactly for a left press inside box_ with the
\* capture granted and for Event::Return; every other event returns false
\* with no on_click_ call.
C17_ConsumedIffClickedOnce ==
    \A w \in Widgets :
        out[w].delivered
        => /\ out[w].on_click \in {0, 1}
           /\ out[w].ret = (out[w].on_click = 1)
           /\ (out[w].on_click = 1) = Activated(w)

\* A key other than Return reached the focused widgets: not consumed, no
\* on_click_ call.
C17_Witness ==
    /\ last.op = "OnEvent"
    /\ last.event = Custom
    /\ \A w \in Widgets : focused[w] /\ out[w] = Ignored

\* C18: within one OnEvent call of ButtonAnimated the order is capture
\* request, focus request, on_click_, perturbation. A denied capture stops
\* before the focus request; on_click_ reads animation_ and the target as
\* they were before the call; when on_click_ returns, the perturbation
\* follows; when it throws, animation_ and the animator stay as they were,
\* while the capture and focus requests of a mouse activation stay made.
C18_ActivationOrder ==
    [][/\ (/\ last'.op = "OnEvent"
           /\ out'["ButtonAnimated"].capture = 1
           /\ mouse_captured)
          => /\ out'["ButtonAnimated"].focus = 0
             /\ out'["ButtonAnimated"].on_click = 0
       /\ (/\ last'.op \in {"OnEvent", "OnEventThrew"}
           /\ out'["ButtonAnimated"].on_click = 1)
          => /\ observed' = [animation_ |-> animation_, to_ |-> animator_.to_]
             /\ last'.event.kind = "mouse"
                    => /\ out'["ButtonAnimated"].capture = 1
                       /\ out'["ButtonAnimated"].focus = 1
                       /\ focused'["ButtonAnimated"]
             /\ last'.op = "OnEvent"
                    => animation_' = HalfScale /\ animator_.to_' = Scale
             /\ last'.op = "OnEventThrew"
                    => animation_' = animation_ /\ animator_' = animator_]_vars

\* on_click_ threw on a left press inside an unfocused ButtonAnimated at
\* rest: the widget has the focus, animation_ and the target are still 0.0.
C18_Witness ==
    /\ last.op = "OnEventThrew"
    /\ last.event.kind = "mouse"
    /\ out["ButtonAnimated"].capture = 1
    /\ out["ButtonAnimated"].focus = 1
    /\ focused["ButtonAnimated"]
    /\ observed = [animation_ |-> 0, to_ |-> 0]
    /\ animation_ = 0
    /\ animator_.to_ = 0

\* C19: a denied capture leaves nothing behind. After mouse events inside
\* box_ whose capture was denied, however many, the left press inside box_
\* that follows the release of the mouse asks for the capture and the focus,
\* runs on_click_ exactly once and returns true, and ButtonAnimated is
\* perturbed as after any activation.
C19_ActivatesAfterDenials ==
    \A w \in Widgets :
        (PointerEvent /\ denials /\ LeftPress /\ Inside(w) /\ ~mouse_captured)
        => /\ out[w] = Delivered(Effect(TRUE, 1, 1, 1))
           /\ focused[w]
           /\ w = "ButtonAnimated" =>
                  /\ observed # NotCalled
                  /\ animation_ = HalfScale
                  /\ animator_.to_ = Scale
                  /\ animator_.from_ = HalfScale
                  /\ animator_.current_ = 0

\* The press after the denials and the release activated both widgets.
C19_Witness ==
    /\ PointerEvent
    /\ denials
    /\ LeftPress
    /\ ~mouse_captured
    /\ \A w \in Widgets : Inside(w) /\ out[w].on_click = 1 /\ out[w].ret

TypeOK ==
    /\ animation_ \in 0..Scale
    /\ animator_.to_ \in {0, Scale}
    /\ animator_.current_ \in 0..animator_.duration_
====
